---- MODULE Spec2Model ----
(***************************************************************************)
(* The crawl-and-enrich pipeline of src/scraper.py as a state machine.      *)
(*                                                                         *)
(* A URL is a sequence of one-character strings, so that urlparse,          *)
(* normalize_url and is_valid_url are computed character by character as    *)
(* the library and the code compute them.  The web is the environment:      *)
(* each fetch draws a response (status, page body length, hrefs, whether    *)
(* parsing the page raises) from small sets.                                *)
(*                                                                         *)
(* Spec is the crawl over pages with any hrefs, FairSpec the same crawl when *)
(* every fetch returns, SiteSpec the crawl of one site whose pages carry     *)
(* fixed hrefs, and UrlSpec the calls of normalize_url and is_valid_url on a *)
(* constructed crawler.  ContentSpec is extract_and_clean and enrich on     *)
(* parsed pages (a tree of elements and strings) and the crawl of one page  *)
(* whose text is read, SaveSpec a crawl followed by save_to_jsonl and       *)
(* load_documents on the text of the file, and CliSpec the crawl that the   *)
(* command line runs and a KeyboardInterrupt may end.                       *)
(***************************************************************************)
EXTENDS Integers, Sequences, FiniteSets, TLC

\* ------------------------------------------------------------- bounds
\* max_pages is drawn from -1..MaxPagesBound, max_depth from -1..MaxDepthBound,
\* and a page carries at most MaxLinks <a href> elements.
MaxPagesBound == 3
MaxDepthBound == 2
MaxLinks == 2
\* on the site of SiteSpec, max_pages is drawn from 0..SitePagesBound and
\* max_depth from -1..SiteDepthBound
SitePagesBound == 5
SiteDepthBound == 3

\* ------------------------------------------------------ program constants
\* the thin-content floor of crawl()
MinBodyLen == 100
\* fetch_page treats a status code >= HttpErrorFloor as a failure
HttpErrorFloor == 400
\* normalize_url strips a trailing slash when the URL holds more than this many "/"
SlashFloor == 3

\* ------------------------------------------------------------- characters
UpperCase == <<"A","B","C","D","E","F","G","H","I","J","K","L","M","N","O","P","Q","R","S","T","U","V","W","X","Y","Z">>
LowerCase == <<"a","b","c","d","e","f","g","h","i","j","k","l","m","n","o","p","q","r","s","t","u","v","w","x","y","z">>

\* str.lower() on one character
lower_char(c) ==
    IF \E i \in 1..Len(UpperCase) : UpperCase[i] = c
    THEN LowerCase[CHOOSE i \in 1..Len(UpperCase) : UpperCase[i] = c]
    ELSE c

\* str.lower()
lower(s) == [i \in 1..Len(s) |-> lower_char(s[i])]

\* pattern in s  (Python substring test)
Contains(s, pat) ==
    \E i \in 1..(Len(s) - Len(pat) + 1) : SubSeq(s, i, i + Len(pat) - 1) = pat

\* s.find(c) + 1 for a character c: the index of the first c, 0 when there is none
Find(s, c) ==
    IF \E i \in 1..Len(s) : s[i] = c
    THEN CHOOSE i \in 1..Len(s) : s[i] = c /\ \A j \in 1..(i - 1) : s[j] # c
    ELSE 0

\* s.count(c)
Count(s, c) == Cardinality({i \in 1..Len(s) : s[i] = c})

\* s.endswith(c) for a character c
EndsWith(s, c) == Len(s) > 0 /\ s[Len(s)] = c

\* s[i:] and s[:i] of Python for a 1-based i: from the i-th character on, and
\* the characters before the i-th
From(s, i) == SubSeq(s, i, Len(s))
Before(s, i) == SubSeq(s, 1, i - 1)

\* the block-list of is_valid_url, in the order of the code
skip_patterns == <<
    <<"/","l","o","g","i","n">>,
    <<"/","l","o","g","o","u","t">>,
    <<"/","s","i","g","n","i","n">>,
    <<"/","s","i","g","n","u","p">>,
    <<"/","r","e","g","i","s","t","e","r">>,
    <<"/","c","a","r","t">>,
    <<"/","c","h","e","c","k","o","u","t">>,
    <<"/","a","c","c","o","u","n","t">>,
    <<"/","s","e","a","r","c","h">>,
    <<"?","s","e","a","r","c","h","=">>,
    <<"?","q","=">>,
    <<".","p","d","f">>,
    <<".","j","p","g">>,
    <<".","p","n","g">>,
    <<".","g","i","f">>,
    <<".","z","i","p">>,
    <<".","e","x","e">>,
    <<"#">> >>

\* ----------------------------------------------------------------- URLs
Letters == {UpperCase[i] : i \in 1..Len(UpperCase)} \cup {LowerCase[i] : i \in 1..Len(LowerCase)}
Digits == {"0","1","2","3","4","5","6","7","8","9"}
\* urllib.parse.scheme_chars
scheme_chars == Letters \cup Digits \cup {"+", "-", "."}
NetlocDelimiters == {"/", "?", "#"}

\* urlsplit, step 1: with i the place of the first ":", url[:i].lower() is the
\* scheme when url[:i] is made of scheme characters and starts with a letter
SchemeAt(u, i, default) ==
    IF i > 1 /\ u[1] \in Letters /\ \A j \in 1..(i - 1) : u[j] \in scheme_chars
    THEN [scheme |-> lower(Before(u, i)), rest |-> From(u, i + 1)]
    ELSE [scheme |-> default, rest |-> u]

SplitScheme(url, default) == SchemeAt(url, Find(url, ":"), default)

\* _splitnetloc(url, 2): the index of the first of "/?#" after the "//"
NetlocEnd(u) ==
    IF \E i \in 3..Len(u) : u[i] \in NetlocDelimiters
    THEN CHOOSE i \in 3..Len(u) :
            u[i] \in NetlocDelimiters /\ \A j \in 3..(i - 1) : u[j] \notin NetlocDelimiters
    ELSE Len(u) + 1

\* urlsplit, step 2: the netloc, when the rest starts with "//"
NetlocAt(p, e) ==
    IF Len(p.rest) >= 2 /\ p.rest[1] = "/" /\ p.rest[2] = "/"
    THEN [scheme |-> p.scheme, netloc |-> SubSeq(p.rest, 3, e - 1), rest |-> From(p.rest, e)]
    ELSE [scheme |-> p.scheme, netloc |-> <<>>, rest |-> p.rest]

SplitNetloc(p) == NetlocAt(p, NetlocEnd(p.rest))

\* urlsplit, step 3: url.split("#", 1), with h the place of the first "#"
FragmentAt(p, h) ==
    IF h > 0
    THEN [scheme |-> p.scheme, netloc |-> p.netloc, rest |-> Before(p.rest, h),
          fragment |-> From(p.rest, h + 1)]
    ELSE [scheme |-> p.scheme, netloc |-> p.netloc, rest |-> p.rest, fragment |-> <<>>]

SplitFragment(p) == FragmentAt(p, Find(p.rest, "#"))

\* urlsplit, step 4: url.split("?", 1), with q the place of the first "?";
\* what is left is the path
QueryAt(p, q) ==
    IF q > 0
    THEN [scheme |-> p.scheme, netloc |-> p.netloc, path |-> Before(p.rest, q),
          query |-> From(p.rest, q + 1), fragment |-> p.fragment]
    ELSE [scheme |-> p.scheme, netloc |-> p.netloc, path |-> p.rest,
          query |-> <<>>, fragment |-> p.fragment]

SplitQuery(p) == QueryAt(p, Find(p.rest, "?"))

\* urlparse(url, scheme=default): scheme, netloc, path, query, fragment
urlparse_default(url, default) ==
    SplitQuery(SplitFragment(SplitNetloc(SplitScheme(url, default))))

urlparse(url) == urlparse_default(url, <<>>)

\* an unbalanced bracket in a netloc
UnbalancedBracket(netloc) ==
    (\E i \in 1..Len(netloc) : netloc[i] = "[") # (\E i \in 1..Len(netloc) : netloc[i] = "]")

\* urlsplit raises ValueError("Invalid IPv6 URL") on an unbalanced bracket in the netloc
urlparse_raises(url) == UnbalancedBracket(SplitNetloc(SplitScheme(url, <<>>)).netloc)

\* urlunparse for a URL with a netloc
urlunparse(p) ==
    p.scheme \o <<":", "/", "/">> \o p.netloc \o p.path
      \o (IF p.query # <<>> THEN <<"?">> \o p.query ELSE <<>>)
      \o (IF p.fragment # <<>> THEN <<"#">> \o p.fragment ELSE <<>>)

\* urljoin with b the parsed base and p the href parsed with the base's scheme
\* as its default
JoinParsed(b, p, href) ==
    IF p.scheme # b.scheme THEN href
    ELSE IF p.netloc # <<>> THEN urlunparse(p)
    ELSE urlunparse([p EXCEPT !.netloc = b.netloc])

\* urljoin(base, href) for the hrefs the model draws: an absolute URL, or a
\* path that starts with "/" (no dot segments)
urljoin(base, href) ==
    JoinParsed(urlparse(base), urlparse_default(href, SplitScheme(base, <<>>).scheme), href)

\* the trailing slash rule of normalize_url
StripSlash(normalized) ==
    IF EndsWith(normalized, "/") /\ Count(normalized, "/") > SlashFloor
    THEN Before(normalized, Len(normalized))
    ELSE normalized

\* Rebuild that keeps the fragment
Rebuild_KeepFragment(parsed) ==
    parsed.scheme \o <<":", "/", "/">> \o parsed.netloc \o parsed.path
      \o (IF parsed.query # <<>> THEN <<"?">> \o parsed.query ELSE <<>>)
      \o (IF parsed.fragment # <<>> THEN <<"#">> \o parsed.fragment ELSE <<>>)

\* the f-strings of normalize_url
Rebuild(parsed) ==
    parsed.scheme \o <<":", "/", "/">> \o parsed.netloc \o parsed.path
      \o (IF parsed.query # <<>> THEN <<"?">> \o parsed.query ELSE <<>>)

normalize_url(url) == StripSlash(Rebuild(urlparse(url)))

\* no pattern of the block-list is in url_lower
NoSkipPattern(url_lower) ==
    \A k \in 1..Len(skip_patterns) : ~Contains(url_lower, skip_patterns[k])

\* is_valid_url that looks for the patterns in the URL as written
is_valid_url_CaseSensitive(url, domain) ==
    /\ urlparse(url).netloc = domain
    /\ NoSkipPattern(url)

is_valid_url(url, domain) ==
    /\ urlparse(url).netloc = domain
    /\ NoSkipPattern(lower(url))

\* ------------------------------------------------------------ the web
SCHEME == <<"h","t","t","p",":","/","/">>
HOST == <<"x",".","i","o">>
U_root == SCHEME \o HOST \o <<"/">>
U_a == SCHEME \o HOST \o <<"/","a">>
U_a_slash == SCHEME \o HOST \o <<"/","a","/">>
U_a_frag == SCHEME \o HOST \o <<"/","a","#","f">>
U_b == SCHEME \o HOST \o <<"/","b">>

\* the seed URLs a run may be started with
Seeds == {U_root, U_a, U_a_slash, U_a_frag}

\* the URLs a frontier entry may hold: a seed, or a link of a page
Urls == Seeds \cup {U_b}

\* the values of allowed_domain
Domains == {urlparse(s).netloc : s \in Seeds}

H_b_rel == <<"/","b">>
H_login == <<"/","l","o","g","i","n">>
H_other == SCHEME \o <<"y",".","i","o","/","a">>
H_bad == SCHEME \o <<"[">>

\* the href attributes a page may carry
Hrefs == {U_a_slash, H_b_rel, H_login, H_other, H_bad}

RECURSIVE SeqsUpTo(_, _)
SeqsUpTo(S, n) ==
    IF n = 0 THEN {<<>>}
    ELSE LET shorter == SeqsUpTo(S, n - 1)
         IN  shorter \cup {Append(s, e) : s \in {t \in shorter : Len(t) = n - 1}, e \in S}

\* what the crawl reads of a page: the length of its cleaned body text and its
\* hrefs in document order
HrefLists == SeqsUpTo(Hrefs, MaxLinks)
BodyLens == {MinBodyLen - 1, MinBodyLen}
Pages == [body_len : BodyLens, hrefs : HrefLists]

\* ------------------------------------------------------------- one site
\* a site of five pages, each with the hrefs it carries whenever it is fetched:
\* the root links to a and d, a to c and d, d to b and then to a malformed URL,
\* c to b and to a login page, b back to a and to another host
U_c == SCHEME \o HOST \o <<"/","c">>
U_d == SCHEME \o HOST \o <<"/","d">>
H_c_rel == <<"/","c">>
H_d_rel == <<"/","d">>

\* the URLs a frontier entry may hold on the site
SiteUrls == {U_root, U_a, U_a_slash, U_b, U_c, U_d}

\* the seed URLs of a run on the site
SiteSeeds == {U_root, U_a_slash}

site_hrefs ==
    [u \in SiteUrls |->
        IF u = U_root THEN <<U_a_slash, H_d_rel>>
        ELSE IF u \in {U_a, U_a_slash} THEN <<H_c_rel, H_d_rel>>
        ELSE IF u = U_d THEN <<H_b_rel, H_bad>>
        ELSE IF u = U_c THEN <<H_b_rel, H_login>>
        ELSE <<U_a_slash, H_other>>]

SiteHrefLists == {site_hrefs[u] : u \in SiteUrls}

\* what fetching url on the site returns: the hrefs are the page's, its body
\* text is long enough or not
SitePages(url) == [body_len : BodyLens, hrefs : {site_hrefs[url]}]

\* what session.get() does: a response with a status code, or an exception
Responses ==
    [kind : {"response"}, status : {200, HttpErrorFloor, 500}]
      \cup [kind : {"Timeout", "RequestException"}, status : {0}]

\* the step of processing a fetched page that raises, before the Document is appended
RaisingSteps == {"extract_and_clean", "enrich"}

\* --------------------------------------------------------------- state
VARIABLES
    start_url, max_pages, max_depth,   \* the configuration of the run
    allowed_domain,
    visited_urls, url_queue, documents, stats,
    pc,            \* "loop": in crawl()'s while loop; "done": crawl() returned;
                   \* "raised": an exception left crawl()
    fetch_log,     \* the URLs session.get() was called with, in order
    dequeue_log,   \* the entries popleft() returned, in order, each with how its
                   \* iteration ended
    sleeps,        \* the number of time.sleep(delay_seconds) calls
    fetches_since_sleep, \* session.get() calls since the last time.sleep()
    last,          \* the latest loop iteration: its entry, the response and the
                   \* page it drew, and how it ended
    call,          \* the latest call of a method made from outside crawl(): the
                   \* method, its arguments and what it returned
    output         \* the file the documents were written to: its path and text

vars == <<start_url, max_pages, max_depth, allowed_domain, visited_urls, url_queue,
          documents, stats, pc, fetch_log, dequeue_log, sleeps, fetches_since_sleep, last,
          call, output>>

config == <<start_url, max_pages, max_depth, allowed_domain>>

\* kind, status: the response ("none", 0 when no fetch was issued);
\* body_len: the length of the extracted body (-1 when nothing was extracted);
\* links: how many entries the links of the page would add to the queue, were
\* they followed (0 when no page was read)
NoIteration ==
    [url |-> <<>>, depth |-> 0, outcome |-> "none", kind |-> "none", status |-> 0,
     body_len |-> -1, links |-> 0]

\* no method was called yet; result is what normalize_url returned, valid what
\* is_valid_url returned; html is the page extract_and_clean was called with
\* and extracted what it returned, or what enrich was called with, and
\* document what enrich returned (<<>> each when there is none); loaded is
\* what load_documents returned, raised whether the call raised
NoCall ==
    [op |-> "none", url |-> <<>>, result |-> <<>>, valid |-> FALSE, html |-> <<>>,
     extracted |-> <<>>, document |-> <<>>, loaded |-> <<>>, raised |-> FALSE]

\* no file was written yet
NoFile == [path |-> "none", text |-> <<>>]

\* WebCrawler.__init__
Init ==
    /\ start_url \in Seeds
    /\ max_pages \in (-1)..MaxPagesBound
    /\ max_depth \in (-1)..MaxDepthBound
    /\ allowed_domain = urlparse(start_url).netloc
    /\ visited_urls = {}
    /\ url_queue = << <<start_url, 0>> >>
    /\ documents = <<>>
    /\ stats = [pages_crawled |-> 0, pages_skipped |-> 0, errors |-> 0]
    /\ pc = "loop"
    /\ fetch_log = <<>>
    /\ dequeue_log = <<>>
    /\ sleeps = 0
    /\ fetches_since_sleep = 0
    /\ last = NoIteration
    /\ call = NoCall
    /\ output = NoFile

\* ------------------------------------------------------------ fetch_page
\* fetch_fails with > for >= : a status of exactly 400 passes as a success
fetch_fails_OffByOne(r) == r.kind # "response" \/ r.status > HttpErrorFloor

\* fetch_page returns None for these responses
fetch_fails(r) == r.kind # "response" \/ r.status >= HttpErrorFloor

\* the three failure branches of fetch_page: the error is counted, None is
\* returned, no exception leaves fetch_page
fetch_page_failure ==
    /\ stats' = [stats EXCEPT !.errors = @ + 1]
    /\ pc' = pc

\* ---------------------------------------------------------- extract_links
\* FilterValid that keeps every link, eligible or not
FilterValid_KeepAll(urls, domain) == urls

RECURSIVE FilterValid(_, _)
FilterValid(urls, domain) ==
    IF urls = <<>> THEN <<>>
    ELSE IF is_valid_url(Head(urls), domain)
         THEN <<Head(urls)>> \o FilterValid(Tail(urls), domain)
         ELSE FilterValid(Tail(urls), domain)

\* urljoin raises on some href: extract_links raises before it returns a link
extract_links_raises(hrefs) == \E i \in 1..Len(hrefs) : urlparse_raises(hrefs[i])

extract_links(hrefs, base_url, domain) ==
    FilterValid([i \in 1..Len(hrefs) |-> normalize_url(urljoin(base_url, hrefs[i]))], domain)

\* extract_links and extract_links_raises tabulated over the pages, URLs and
\* domains of the model: links_of[domain][base_url][hrefs]
links_of ==
    [d \in Domains |->
        [b \in Urls \cup SiteUrls |->
            [hs \in HrefLists \cup SiteHrefLists |-> extract_links(hs, b, d)]]]

links_raise == [hs \in HrefLists \cup SiteHrefLists |-> extract_links_raises(hs)]

\* ContentEnricher.enrich, the fields the crawl decides
enrich(body_len, url, http_status, crawl_depth) ==
    [url |-> url, char_count |-> body_len, http_status |-> http_status,
     crawl_depth |-> crawl_depth]

\* ---------------------------------------------------------------- crawl
current_url == Head(url_queue)[1]
depth == Head(url_queue)[2]

\* LoopCondition with <= for < : one more iteration at the budget
LoopCondition_OffByOne == url_queue # <<>> /\ Len(documents) <= max_pages

\* the while condition of crawl()
LoopCondition == url_queue # <<>> /\ Len(documents) < max_pages

\* depth_exceeded one level late
depth_exceeded_OffByOne(d) == d > max_depth + 1

\* if depth > self.max_depth
depth_exceeded(d) == d > max_depth

\* is_thin with the floor one character lower
is_thin_OffByOne(body_len) == body_len < MinBodyLen - 1

\* if len(extracted["body_text"]) < 100
is_thin(body_len) == body_len < MinBodyLen

\* follows_links with <= for < : links are read one level deeper
follows_links_OffByOne(d) == d <= max_depth

\* if depth < self.max_depth: the page's links are followed
follows_links(d) == d < max_depth

RECURSIVE NotVisited(_, _)
NotVisited(links, visited) ==
    IF links = <<>> THEN <<>>
    ELSE IF Head(links) \notin visited
         THEN <<Head(links)>> \o NotVisited(Tail(links), visited)
         ELSE NotVisited(Tail(links), visited)

\* Entries that enqueues a link at the depth of its page, not one below it
Entries_SameDepth(fresh, d) == [i \in 1..Len(fresh) |-> <<fresh[i], d>>]

\* the entries the for loop over links appends
Entries(fresh, d) == [i \in 1..Len(fresh) |-> <<fresh[i], d + 1>>]

\* NewEntries that enqueues the first link only
NewEntries_FirstOnly(hrefs, base_url, visited, d) ==
    Entries(Before(NotVisited(links_of[allowed_domain][base_url][hrefs], visited), 2), d)

\* the entries the links of a page add: the links extract_links returns that
\* are not visited, at depth + 1
NewEntries(hrefs, base_url, visited, d) ==
    Entries(NotVisited(links_of[allowed_domain][base_url][hrefs], visited), d)

\* the entries a fetched page's links would add to the queue, were they followed
WouldEnqueue(hrefs) ==
    IF follows_links(depth) /\ ~links_raise[hrefs]
    THEN Len(NewEntries(hrefs, current_url, visited_urls \cup {current_url}, depth))
    ELSE 0

\* popleft(), and the record of the iteration
Pop(outcome, r, body_len, links) ==
    /\ dequeue_log' = Append(dequeue_log, [url |-> current_url, depth |-> depth,
                                           outcome |-> outcome])
    /\ last' = [url |-> current_url, depth |-> depth, outcome |-> outcome,
                kind |-> r.kind, status |-> r.status, body_len |-> body_len,
                links |-> links]

NoResponse == [kind |-> "none", status |-> 0]

\* MarkAndGet without visited_urls.add
MarkAndGet_NotMarked ==
    /\ visited_urls' = visited_urls
    /\ fetch_log' = Append(fetch_log, current_url)

\* visited_urls.add(current_url), then session.get(current_url)
MarkAndGet ==
    /\ visited_urls' = visited_urls \cup {current_url}
    /\ fetch_log' = Append(fetch_log, current_url)

\* a fetch after which the iteration ends with continue: no time.sleep() follows
Fetched ==
    /\ MarkAndGet
    /\ fetches_since_sleep' = fetches_since_sleep + 1

\* except_handler that lets the exception leave crawl()
except_handler_Reraise ==
    /\ stats' = [stats EXCEPT !.errors = @ + 1]
    /\ pc' = "raised"

\* the except clause of crawl(): the error is counted, the loop continues
except_handler ==
    /\ stats' = [stats EXCEPT !.errors = @ + 1]
    /\ pc' = pc

\* AlreadyVisited that counts the entry as skipped
AlreadyVisited_Counted ==
    /\ pc = "loop" /\ LoopCondition
    /\ current_url \in visited_urls
    /\ url_queue' = Tail(url_queue)
    /\ stats' = [stats EXCEPT !.pages_skipped = @ + 1]
    /\ Pop("AlreadyVisited", NoResponse, -1, 0)
    /\ UNCHANGED <<config, call, output, visited_urls, documents, pc, fetch_log, sleeps,
                   fetches_since_sleep>>

\* the entry's URL is already visited: continue
AlreadyVisited ==
    /\ pc = "loop" /\ LoopCondition
    /\ current_url \in visited_urls
    /\ url_queue' = Tail(url_queue)
    /\ Pop("AlreadyVisited", NoResponse, -1, 0)
    /\ UNCHANGED <<config, call, output, visited_urls, documents, stats, pc, fetch_log, sleeps,
                   fetches_since_sleep>>

\* the entry is deeper than max_depth: count it as skipped, continue
DepthExceeded ==
    /\ pc = "loop" /\ LoopCondition
    /\ current_url \notin visited_urls
    /\ depth_exceeded(depth)
    /\ url_queue' = Tail(url_queue)
    /\ stats' = [stats EXCEPT !.pages_skipped = @ + 1]
    /\ Pop("DepthExceeded", NoResponse, -1, 0)
    /\ UNCHANGED <<config, call, output, visited_urls, documents, pc, fetch_log, sleeps,
                   fetches_since_sleep>>

\* fetch_page returned None: the error was counted in fetch_page, continue
FetchFailed ==
    /\ pc = "loop" /\ LoopCondition
    /\ current_url \notin visited_urls
    /\ ~depth_exceeded(depth)
    /\ \E r \in Responses :
        /\ fetch_fails(r)
        /\ Fetched
        /\ fetch_page_failure
        /\ url_queue' = Tail(url_queue)
        /\ Pop("Failed", r, -1, 0)
        /\ UNCHANGED <<config, call, output, documents, sleeps>>

\* the iteration that finds the cleaned body of the page html, fetched with
\* response r, shorter than the floor
ThinContentWith(r, html) ==
    /\ ~fetch_fails(r)
    /\ is_thin(html.body_len)
    /\ Fetched
    /\ stats' = [stats EXCEPT !.pages_skipped = @ + 1]
    /\ url_queue' = Tail(url_queue)
    /\ Pop("Thin", r, html.body_len, WouldEnqueue(html.hrefs))
    /\ UNCHANGED <<config, call, output, documents, pc, sleeps>>

\* the cleaned body is shorter than the floor: count it as skipped, continue
ThinContent ==
    /\ pc = "loop" /\ LoopCondition
    /\ current_url \notin visited_urls
    /\ ~depth_exceeded(depth)
    /\ \E r \in Responses, html \in Pages : ThinContentWith(r, html)

\* extract_and_clean or enrich raised: caught, counted as an error, continue
ProcessingError ==
    /\ pc = "loop" /\ LoopCondition
    /\ current_url \notin visited_urls
    /\ ~depth_exceeded(depth)
    /\ \E r \in Responses, body_len \in BodyLens, step \in RaisingSteps :
        /\ ~fetch_fails(r)
        /\ step = "enrich" => ~is_thin(body_len)
        /\ Fetched
        /\ except_handler
        /\ url_queue' = Tail(url_queue)
        /\ Pop("ProcessingError", r, IF step = "enrich" THEN body_len ELSE -1, 0)
        /\ UNCHANGED <<config, call, output, documents, sleeps>>

\* LinkDiscoveryErrorWith that counts the page only after its links were read
LinkDiscoveryErrorWith_CountedLate(r, html) ==
    /\ ~fetch_fails(r)
    /\ ~is_thin(html.body_len)
    /\ follows_links(depth)
    /\ links_raise[html.hrefs]
    /\ Fetched
    /\ documents' = Append(documents, enrich(html.body_len, current_url, r.status, depth))
    /\ stats' = [stats EXCEPT !.errors = @ + 1]
    /\ pc' = pc
    /\ url_queue' = Tail(url_queue)
    /\ Pop("LinkDiscoveryError", r, html.body_len, 0)
    /\ UNCHANGED <<config, call, output, sleeps>>

\* the iteration that appends the Document of the page html, fetched with
\* response r, and then has extract_links raise
LinkDiscoveryErrorWith(r, html) ==
    /\ ~fetch_fails(r)
    /\ ~is_thin(html.body_len)
    /\ follows_links(depth)
    /\ links_raise[html.hrefs]
    /\ Fetched
    /\ documents' = Append(documents, enrich(html.body_len, current_url, r.status, depth))
    /\ stats' = [stats EXCEPT !.pages_crawled = @ + 1, !.errors = @ + 1]
    /\ pc' = pc
    /\ url_queue' = Tail(url_queue)
    /\ Pop("LinkDiscoveryError", r, html.body_len, 0)
    /\ UNCHANGED <<config, call, output, sleeps>>

\* the Document was appended, then extract_links raised: caught, counted as an
\* error, continue
LinkDiscoveryError ==
    /\ pc = "loop" /\ LoopCondition
    /\ current_url \notin visited_urls
    /\ ~depth_exceeded(depth)
    /\ \E r \in Responses, html \in Pages : LinkDiscoveryErrorWith(r, html)

\* EmittedWith that puts the page's links at the front of the queue
EmittedWith_DepthFirst(r, html) ==
    /\ ~fetch_fails(r)
    /\ ~is_thin(html.body_len)
    /\ follows_links(depth) => ~links_raise[html.hrefs]
    /\ MarkAndGet
    /\ documents' = Append(documents, enrich(html.body_len, current_url, r.status, depth))
    /\ stats' = [stats EXCEPT !.pages_crawled = @ + 1]
    /\ url_queue' =
          IF follows_links(depth)
          THEN NewEntries(html.hrefs, current_url, visited_urls \cup {current_url}, depth)
               \o Tail(url_queue)
          ELSE Tail(url_queue)
    /\ Pop("Emitted", r, html.body_len, WouldEnqueue(html.hrefs))
    /\ sleeps' = sleeps + 1
    /\ fetches_since_sleep' = 0
    /\ UNCHANGED <<config, call, output, pc>>

\* the iteration that makes the page html, fetched with response r, a Document
EmittedWith(r, html) ==
    /\ ~fetch_fails(r)
    /\ ~is_thin(html.body_len)
    /\ follows_links(depth) => ~links_raise[html.hrefs]
    /\ MarkAndGet
    /\ documents' = Append(documents, enrich(html.body_len, current_url, r.status, depth))
    /\ stats' = [stats EXCEPT !.pages_crawled = @ + 1]
    /\ url_queue' =
          IF follows_links(depth)
          THEN Tail(url_queue) \o
               NewEntries(html.hrefs, current_url, visited_urls \cup {current_url}, depth)
          ELSE Tail(url_queue)
    /\ Pop("Emitted", r, html.body_len, WouldEnqueue(html.hrefs))
    /\ sleeps' = sleeps + 1
    /\ fetches_since_sleep' = 0
    /\ UNCHANGED <<config, call, output, pc>>

\* the page became a Document; its links are enqueued below max_depth; sleep
Emitted ==
    /\ pc = "loop" /\ LoopCondition
    /\ current_url \notin visited_urls
    /\ ~depth_exceeded(depth)
    /\ \E r \in Responses, html \in Pages : EmittedWith(r, html)

\* the while condition is false: crawl() returns the documents
LoopExit ==
    /\ pc = "loop" /\ ~LoopCondition
    /\ pc' = "done"
    /\ UNCHANGED <<config, call, output, visited_urls, url_queue, documents, stats, fetch_log,
                   dequeue_log, sleeps, fetches_since_sleep, last>>

Next ==
    \/ AlreadyVisited
    \/ DepthExceeded
    \/ FetchFailed
    \/ ThinContent
    \/ ProcessingError
    \/ LinkDiscoveryError
    \/ Emitted
    \/ LoopExit

Spec == Init /\ [][Next]_vars

\* ------------------------------------------------------- a run on the site
\* WebCrawler.__init__ with a seed of the site
SiteInit ==
    /\ start_url \in SiteSeeds
    /\ max_pages \in 0..SitePagesBound
    /\ max_depth \in (-1)..SiteDepthBound
    /\ allowed_domain = urlparse(start_url).netloc
    /\ visited_urls = {}
    /\ url_queue = << <<start_url, 0>> >>
    /\ documents = <<>>
    /\ stats = [pages_crawled |-> 0, pages_skipped |-> 0, errors |-> 0]
    /\ pc = "loop"
    /\ fetch_log = <<>>
    /\ dequeue_log = <<>>
    /\ sleeps = 0
    /\ fetches_since_sleep = 0
    /\ last = NoIteration
    /\ call = NoCall
    /\ output = NoFile

\* ThinContent, LinkDiscoveryError and Emitted with the page the site serves at
\* current_url
SiteThinContent ==
    /\ pc = "loop" /\ LoopCondition
    /\ current_url \notin visited_urls
    /\ ~depth_exceeded(depth)
    /\ \E r \in Responses, html \in SitePages(current_url) : ThinContentWith(r, html)

SiteLinkDiscoveryError ==
    /\ pc = "loop" /\ LoopCondition
    /\ current_url \notin visited_urls
    /\ ~depth_exceeded(depth)
    /\ \E r \in Responses, html \in SitePages(current_url) : LinkDiscoveryErrorWith(r, html)

SiteEmitted ==
    /\ pc = "loop" /\ LoopCondition
    /\ current_url \notin visited_urls
    /\ ~depth_exceeded(depth)
    /\ \E r \in Responses, html \in SitePages(current_url) : EmittedWith(r, html)

SiteNext ==
    \/ AlreadyVisited
    \/ DepthExceeded
    \/ FetchFailed
    \/ SiteThinContent
    \/ ProcessingError
    \/ SiteLinkDiscoveryError
    \/ SiteEmitted
    \/ LoopExit

SiteSpec == SiteInit /\ [][SiteNext]_vars

\* the run under the condition that every fetch returns: crawl() is one
\* sequential loop with nothing else to wait for, so it takes its next step
\* whenever it has one
FairSpec == Spec /\ WF_vars(Next)

\* ------------------------------------- normalize_url and is_valid_url, called
\* the URLs the two methods are called with: a scheme, a netloc (a host as the
\* seed's, in another case, with a port, with a user, another host), a path, a
\* query and a fragment, each from a few texts
UrlSchemes == {SCHEME, <<"H","T","T","P",":","/","/">>}
UrlNetlocs ==
    {HOST, <<"X",".","i","o">>, HOST \o <<":","8","0">>, <<"u","@">> \o HOST,
     <<"y",".","i","o">>}
UrlPaths ==
    {<<>>, <<"/">>, <<"/","p">>, <<"/","p","/">>, <<"/","p","/","/">>, H_login,
     <<"/","a",".","P","D","F">>, <<"/","a","/","b","/","/">>}
UrlQueries ==
    {<<>>, <<"?">>, <<"?","k","=","v">>, <<"?","k","=","v","/">>, <<"?","q","=","1">>}
UrlFragments == {<<>>, <<"#">>, <<"#","f">>, <<"#","f","?","x">>}

TestUrls ==
    {s \o n \o p \o q \o f :
        s \in UrlSchemes, n \in UrlNetlocs, p \in UrlPaths, q \in UrlQueries,
        f \in UrlFragments}

\* the state of the crawler, which the two methods only read
crawler == <<config, visited_urls, url_queue, documents, stats, pc, fetch_log,
             dequeue_log, sleeps, fetches_since_sleep, last>>

\* WebCrawler("http://x.io/"): allowed_domain is "x.io"
UrlInit == Init /\ start_url = U_root /\ max_pages = MaxPagesBound /\ max_depth = MaxDepthBound

\* crawler.normalize_url(url)
NormalizeUrl ==
    /\ call.op = "none"
    /\ \E url \in TestUrls :
          call' = [NoCall EXCEPT !.op = "normalize_url", !.url = url,
                                 !.result = normalize_url(url)]
    /\ UNCHANGED <<crawler, output>>

\* crawler.normalize_url called with what the call before returned
Renormalize ==
    /\ call.op = "normalize_url"
    /\ call' = [call EXCEPT !.url = call.result, !.result = normalize_url(call.result)]
    /\ UNCHANGED <<crawler, output>>

\* crawler.is_valid_url(url)
IsValidUrl ==
    /\ call.op = "none"
    /\ \E url \in TestUrls :
          call' = [NoCall EXCEPT !.op = "is_valid_url", !.url = url,
                                 !.valid = is_valid_url(url, allowed_domain)]
    /\ UNCHANGED <<crawler, output>>

UrlNext ==
    \/ NormalizeUrl
    \/ Renormalize
    \/ IsValidUrl

UrlSpec == UrlInit /\ [][UrlNext]_vars

\* ------------------------------------------------- ContentExtractor: markup
\* what a page is once BeautifulSoup has parsed it: a tree of nodes. A node is
\* a string (name "#text", its text in string) or an element (its tag name,
\* its class and id attributes, its children in contents)
NavigableString(s) ==
    [name |-> "#text", class |-> <<>>, id |-> <<>>, string |-> s, contents |-> <<>>]
Tag(name, class, id, contents) ==
    [name |-> name, class |-> class, id |-> id, string |-> <<>>, contents |-> contents]

\* the characters \s matches and str.strip() removes
Whitespace == {" ", "\n", "\t"}

NonSpaceAt(s) == {i \in 1..Len(s) : s[i] \notin Whitespace}
FirstOf(S) == CHOOSE i \in S : \A j \in S : i <= j
LastOf(S) == CHOOSE i \in S : \A j \in S : j <= i

\* str.strip()
strip(s) ==
    IF NonSpaceAt(s) = {} THEN <<>> ELSE SubSeq(s, FirstOf(NonSpaceAt(s)), LastOf(NonSpaceAt(s)))

\* separator.join(strings)
RECURSIVE join(_, _)
join(separator, strings) ==
    IF strings = <<>> THEN <<>>
    ELSE IF Len(strings) = 1 THEN strings[1]
    ELSE strings[1] \o separator \o join(separator, Tail(strings))

\* Tag._all_strings(): the strings below the nodes, in document order
RECURSIVE all_strings(_)
all_strings(nodes) ==
    IF nodes = <<>> THEN <<>>
    ELSE (IF Head(nodes).name = "#text" THEN <<Head(nodes).string>>
          ELSE all_strings(Head(nodes).contents))
         \o all_strings(Tail(nodes))

\* the strings stripped, the empty ones left out
RECURSIVE stripped_strings(_)
stripped_strings(strings) ==
    IF strings = <<>> THEN <<>>
    ELSE (IF strip(Head(strings)) = <<>> THEN <<>> ELSE <<strip(Head(strings))>>)
         \o stripped_strings(Tail(strings))

\* Tag.get_text(separator, strip)
get_text(tag, separator, stripped) ==
    IF stripped THEN join(separator, stripped_strings(all_strings(tag.contents)))
    ELSE join(separator, all_strings(tag.contents))

\* Tag.string: the only child when it is a string, the string of the only child
\* when it is an element, None (<<>>) otherwise; a string is given as <<s>>
RECURSIVE string_of(_)
string_of(tag) ==
    IF Len(tag.contents) # 1 THEN <<>>
    ELSE IF tag.contents[1].name = "#text" THEN <<tag.contents[1].string>>
    ELSE string_of(tag.contents[1])

\* Tag.find_all(name): the elements of that name below the nodes, in document
\* order, nested ones included
RECURSIVE find_all(_, _)
find_all(nodes, name) ==
    IF nodes = <<>> THEN <<>>
    ELSE (IF Head(nodes).name = name THEN <<Head(nodes)>> ELSE <<>>)
         \o find_all(Head(nodes).contents, name)
         \o find_all(Tail(nodes), name)

\* a parsed page: its <title> element, its first <h1> element, the content
\* attribute of its <meta property="og:title"> (each <<>> when the page has
\* none, <<x>> otherwise) and the element extract_main_content locates
Soup(title, h1, og_title, main) ==
    [title |-> title, h1 |-> h1, og_title |-> og_title, main |-> main]

\* ContentExtractor.extract_title
Untitled == <<"U","n","t","i","t","l","e","d">>

title_string(soup) == IF soup.title = <<>> THEN <<>> ELSE string_of(soup.title[1])

extract_title(soup) ==
    IF title_string(soup) # <<>> /\ title_string(soup)[1] # <<>>
    THEN strip(title_string(soup)[1])
    ELSE IF soup.h1 # <<>>
    THEN get_text(soup.h1[1], <<>>, TRUE)
    ELSE IF soup.og_title # <<>> /\ soup.og_title[1] # <<>>
    THEN strip(soup.og_title[1])
    ELSE Untitled

\* ContentExtractor.BOILERPLATE_TAGS and BOILERPLATE_PATTERNS
BOILERPLATE_TAGS == {"nav", "footer", "aside", "script", "style"}

BOILERPLATE_PATTERNS ==
    { <<"n","a","v","b","a","r">>,
      <<"n","a","v","i","g","a","t","i","o","n">>,
      <<"m","e","n","u","-">>,
      <<"s","i","d","e","b","a","r">>,
      <<"s","i","d","e","-","b","a","r">>,
      <<"f","o","o","t","e","r">>,
      <<"s","i","t","e","-","f","o","o","t","e","r">>,
      <<"p","a","g","e","-","f","o","o","t","e","r">>,
      <<"h","e","a","d","e","r","-","n","a","v">>,
      <<"s","i","t","e","-","h","e","a","d","e","r">>,
      <<"a","d","v","e","r","t","i","s","e","m","e","n","t">>,
      <<"a","d","-">>,
      <<"c","o","o","k","i","e","-">>,
      <<"p","o","p","u","p">>,
      <<"m","o","d","a","l">>,
      <<"b","a","n","n","e","r","-","a","d">>,
      <<"s","h","a","r","e","-","b","u","t","t","o","n">>,
      <<"s","o","c","i","a","l","-","s","h","a","r","e">> }

\* ContentExtractor.is_boilerplate_element
is_boilerplate_element(element) ==
    \/ element.name \in BOILERPLATE_TAGS
    \/ \E pattern \in BOILERPLATE_PATTERNS :
          Contains(lower(element.class), pattern) \/ Contains(lower(element.id), pattern)

\* element.decompose() for every element below the nodes whose name is one of names
RECURSIVE decompose_all(_, _)
decompose_all(nodes, names) ==
    IF nodes = <<>> THEN <<>>
    ELSE (IF Head(nodes).name \in names THEN <<>>
          ELSE << [Head(nodes) EXCEPT !.contents = decompose_all(Head(nodes).contents, names)] >>)
         \o decompose_all(Tail(nodes), names)

\* element.decompose() for every direct child whose name is one of names
RECURSIVE decompose_children(_, _)
decompose_children(nodes, names) ==
    IF nodes = <<>> THEN <<>>
    ELSE (IF Head(nodes).name \in names THEN <<>> ELSE <<Head(nodes)>>)
         \o decompose_children(Tail(nodes), names)

\* ContentExtractor.extract_main_content, from the located container on: the
\* boilerplate tags are removed at every depth, then nav, footer and aside
\* among the direct children
extract_main_content(soup) ==
    [soup.main EXCEPT !.contents =
        decompose_children(decompose_all(soup.main.contents, BOILERPLATE_TAGS),
                           {"nav", "footer", "aside"})]

\* str.lstrip()
lstrip(s) == IF NonSpaceAt(s) = {} THEN <<>> ELSE SubSeq(s, FirstOf(NonSpaceAt(s)), Len(s))

SpaceAt(s) == {i \in 1..Len(s) : s[i] \in Whitespace}

\* the first token of a text that starts with one
first_token(t) == IF SpaceAt(t) = {} THEN t ELSE SubSeq(t, 1, FirstOf(SpaceAt(t)) - 1)

\* re.sub(r"\s+", " ", text): a run of whitespace becomes one space, a run of
\* other characters stays
RECURSIVE sub_whitespace(_)
sub_whitespace(text) ==
    IF text = <<>> THEN <<>>
    ELSE IF Head(text) \in Whitespace THEN <<" ">> \o sub_whitespace(lstrip(text))
    ELSE first_token(text) \o sub_whitespace(From(text, Len(first_token(text)) + 1))

\* re.sub(r"\n\s*\n\s*\n", "\n\n", text): the pattern needs three newlines
sub_blank_lines(text) == CASE Count(text, "\n") < 3 -> text

\* clean_text without the collapsing of whitespace runs
clean_text_NotCollapsed(text) == strip(text)

\* ContentExtractor.clean_text
clean_text(text) == sub_blank_lines(strip(sub_whitespace(text)))

\* the first place pat occurs in s at
FindSeq(s, pat) ==
    FirstOf({i \in 1..(Len(s) - Len(pat) + 1) : SubSeq(s, i, i + Len(pat) - 1) = pat})

\* str.split(separator)
RECURSIVE split(_, _)
split(s, separator) ==
    IF ~Contains(s, separator) THEN <<s>>
    ELSE <<SubSeq(s, 1, FindSeq(s, separator) - 1)>>
         \o split(SubSeq(s, FindSeq(s, separator) + Len(separator), Len(s)), separator)

\* [p for p in pieces if p.strip()]
RECURSIVE non_blank(_)
non_blank(pieces) ==
    IF pieces = <<>> THEN <<>>
    ELSE (IF strip(Head(pieces)) = <<>> THEN <<>> ELSE <<Head(pieces)>>)
         \o non_blank(Tail(pieces))

\* [a.get_text() for a in main_content.find_all("a")]
RECURSIVE texts_of(_)
texts_of(elements) ==
    IF elements = <<>> THEN <<>>
    ELSE <<get_text(Head(elements), <<>>, FALSE)>> \o texts_of(Tail(elements))

Max(a, b) == IF a >= b THEN a ELSE b

body_text_of(main_content) == clean_text(get_text(main_content, <<"\n">>, TRUE))
link_text_of(main_content) == join(<<" ">>, texts_of(find_all(main_content.contents, "a")))

\* the dictionary extract_and_clean returns for a title and a main content;
\* link_density is the quotient num / den; no text of the pages holds a code
\* fence, so has_code_blocks is decided by the code and pre elements
extracted_data(title, main_content) ==
    [title |-> title,
     body_text |-> body_text_of(main_content),
     paragraph_count |-> Len(non_blank(split(body_text_of(main_content), <<"\n","\n">>))),
     has_code_blocks |->
        \/ find_all(main_content.contents, "code") # <<>>
        \/ find_all(main_content.contents, "pre") # <<>>,
     link_density |-> [num |-> Len(link_text_of(main_content)),
                       den |-> Max(Len(body_text_of(main_content)), 1)]]

\* ContentExtractor.extract_and_clean
extract_and_clean(html) == extracted_data(extract_title(html), extract_main_content(html))

\* ------------------------------------------------------- ContentEnricher
\* a body has to be longer than this to be a tutorial
TutorialFloor == 1500

\* str.split(): the maximal runs of characters that are not whitespace
RECURSIVE split_whitespace(_)
split_whitespace(s) ==
    IF lstrip(s) = <<>> THEN <<>>
    ELSE <<first_token(lstrip(s))>>
         \o split_whitespace(SubSeq(lstrip(s), Len(first_token(lstrip(s))) + 1,
                                    Len(lstrip(s))))

\* round(num / den, digits) in units of 1 / scale, scale = 10 ^ digits: the
\* nearest multiple. Halfway between two multiples the binary value of the
\* float decides, which the quotient of two integers does not tell: round is
\* not defined there, and no page below leads there
round(num, den, scale) ==
    CASE 2 * ((scale * num) % den) > den -> ((scale * num) \div den) + 1
      [] 2 * ((scale * num) % den) < den -> (scale * num) \div den

DocsPatterns ==
    { <<"/","d","o","c","s","/">>,
      <<"/","d","o","c","u","m","e","n","t","a","t","i","o","n","/">> }
ArticlePatterns ==
    { <<"/","b","l","o","g","/">>, <<"/","a","r","t","i","c","l","e","/">>,
      <<"/","p","o","s","t","/">> }
ProductPatterns ==
    { <<"/","p","r","o","d","u","c","t","/">>, <<"c","a","t","a","l","o","g","u","e">> }
TutorialWords ==
    { <<"t","u","t","o","r","i","a","l">>, <<"g","u","i","d","e">>,
      <<"h","o","w"," ","t","o">> }

\* the content types
doc_page == <<"d","o","c","_","p","a","g","e">>
article == <<"a","r","t","i","c","l","e">>
product_page == <<"p","r","o","d","u","c","t","_","p","a","g","e">>
list_page == <<"l","i","s","t","_","p","a","g","e">>
tutorial == <<"t","u","t","o","r","i","a","l">>

ContainsAny(s, patterns) == \E pattern \in patterns : Contains(s, pattern)

\* ContentEnricher.classify_content_type, the URL rules reading url_lower
classify_content_type_in(url_lower, title_lower, body_text, link_density) ==
    IF ContainsAny(url_lower, DocsPatterns) THEN doc_page
    ELSE IF ContainsAny(url_lower, ArticlePatterns) THEN article
    ELSE IF ContainsAny(url_lower, ProductPatterns) THEN product_page
    ELSE IF 10 * link_density.num > 3 * link_density.den THEN list_page
    ELSE IF Len(body_text) > TutorialFloor /\ ContainsAny(title_lower, TutorialWords)
    THEN tutorial
    ELSE article

\* ContentEnricher.classify_content_type
classify_content_type(url, title, body_text, link_density) ==
    classify_content_type_in(lower(url), lower(title), body_text, link_density)

\* ContentEnricher.enrich with the text of the page: the Document, without
\* fetched_at (the clock), language (langdetect) and
\* estimated_read_time_minutes (word_count / 200, rounded). link_density is in
\* thousandths
ContentEnricher_enrich(data, url, http_status, crawl_depth) ==
    [url |-> url,
     title |-> data.title,
     body_text |-> data.body_text,
     content_type |-> classify_content_type(url, data.title, data.body_text,
                                            data.link_density),
     word_count |-> Len(split_whitespace(data.body_text)),
     char_count |-> Len(data.body_text),
     has_code_blocks |-> data.has_code_blocks,
     link_density |-> round(data.link_density.num, data.link_density.den, 1000),
     paragraph_count |-> data.paragraph_count,
     http_status |-> http_status,
     crawl_depth |-> crawl_depth]

\* ------------------------------------------------ extraction and enrichment
\* the texts of the pages: words of nine letters, 99 and 100 characters long
Words99 == [i \in 1..(MinBodyLen - 1) |-> IF i % 10 = 0 THEN " " ELSE "w"]
Words100 == Words99 \o <<"w">>

P(text) == Tag("p", <<>>, <<>>, <<NavigableString(text)>>)
A(text) == Tag("a", <<>>, <<>>, <<NavigableString(text)>>)

\* the children of <main>: paragraphs and anchors, short and long, with and
\* without whitespace around the text, with a blank line inside the text, an
\* anchor inside an anchor, boilerplate
\* by tag (a child, and a grandchild inside a div) and boilerplate by class
\* and by id. Every boilerplate element has letters of its own
MainChildren ==
    { P(<<"x">>), P(<<" ","y","\n","\n","y"," ">>), P(Words99), P(Words100),
      A(<<"k">>), A(<<" ","k"," ">>), A(<<" ">> \o Words100),
      Tag("a", <<>>, <<>>, <<NavigableString(<<"k">>), A(<<"l">>)>>),
      Tag("nav", <<>>, <<>>, <<A(<<"n">>)>>),
      Tag("div", <<>>, <<>>,
          <<Tag("script", <<>>, <<>>, <<NavigableString(<<"j">>)>>),
            NavigableString(<<"z">>)>>),
      Tag("div", <<"S","i","d","e","b","a","r">>, <<>>, <<NavigableString(<<"s">>)>>),
      Tag("div", <<>>, <<"c","o","o","k","i","e","-","b","a","r">>,
          <<NavigableString(<<"c">>)>>),
      Tag("pre", <<>>, <<>>, <<NavigableString(<<"q">>)>>) }

\* a <main> holds at most this many children
MaxChildren == 2

Mains == {Tag("main", <<>>, <<>>, contents) : contents \in SeqsUpTo(MainChildren, MaxChildren)}

\* the <title>: none, an empty one, one of whitespace, one with a text
Titles ==
    { <<>>, <<Tag("title", <<>>, <<>>, <<>>)>>,
      <<Tag("title", <<>>, <<>>, <<NavigableString(<<" ">>)>>)>>,
      <<Tag("title", <<>>, <<>>, <<NavigableString(<<" ","T"," ","g","u","i","d","e">>)>>)>> }

\* the first <h1>: none, an empty one, one of whitespace, one with a text
Headings ==
    { <<>>, <<Tag("h1", <<>>, <<>>, <<>>)>>,
      <<Tag("h1", <<>>, <<>>, <<NavigableString(<<" ">>)>>)>>,
      <<Tag("h1", <<>>, <<>>, <<NavigableString(<<"H"," ">>)>>)>> }

\* the og:title content: no such meta, an empty one, whitespace, a text
OgTitles == { <<>>, << <<>> >>, << <<" ">> >>, << <<"O"," ">> >> }

PlainMain == Tag("main", <<>>, <<>>, <<P(Words100)>>)
PlainTitle == <<Tag("title", <<>>, <<>>, <<NavigableString(<<"T">>)>>)>>

\* the pages: every head over one main, and one head over every main
HtmlPages ==
    {Soup(title, h1, og_title, PlainMain) :
        title \in Titles, h1 \in Headings, og_title \in OgTitles}
      \cup {Soup(PlainTitle, <<>>, <<>>, main) : main \in Mains}

\* the URLs enrich is called with: a path under each URL rule, under none,
\* under two, in upper case, and a rule's text in the host and in the query
U_docs == U_root \o <<"d","o","c","s","/","a">>
U_documentation == U_root \o <<"d","o","c","u","m","e","n","t","a","t","i","o","n","/">>
U_blog == U_root \o <<"b","l","o","g","/","a">>
U_product == U_root \o <<"p","r","o","d","u","c","t","/","a">>
U_blog_docs == U_root \o <<"b","l","o","g","/","d","o","c","s","/">>
U_product_post == U_root \o <<"p","r","o","d","u","c","t","/","p","o","s","t","/">>
U_DOCS == U_root \o <<"D","O","C","S","/","a">>
U_catalogue_host == SCHEME \o <<"c","a","t","a","l","o","g","u","e",".","i","o","/","a">>
U_docs_query == U_a \o <<"?","n","e","x","t","=","/","d","o","c","s","/">>

ClassifyUrls ==
    { U_a, U_docs, U_documentation, U_blog, U_product, U_blog_docs, U_product_post,
      U_DOCS, U_catalogue_host, U_docs_query }

\* the bodies enrich is called with: at the tutorial floor and one above it
Body1500 == [i \in 1..TutorialFloor |-> "w"]
Body1501 == Body1500 \o <<"w">>

\* the dictionaries enrich is called with: a title with and without a tutorial
\* word, a body below, at and above the tutorial floor, and a link density
\* below, at and above three tenths
ExtractedData ==
    [title : { <<"N","e","w","s">>, <<"A"," ","G","u","i","d","e">>,
               <<"H","o","w"," ","T","o">> },
     body_text : {Words100, Body1500, Body1501},
     paragraph_count : {1},
     has_code_blocks : {FALSE},
     link_density : { [num |-> 0, den |-> 1], [num |-> 3, den |-> 10],
                      [num |-> 31, den |-> 100] }]

\* ContentExtractor.extract_and_clean(html, url), before crawl() is called
ExtractAndClean ==
    /\ call.op = "none" /\ dequeue_log = <<>>
    /\ \E html \in HtmlPages :
          call' = [NoCall EXCEPT !.op = "extract_and_clean", !.html = <<html>>,
                                 !.extracted = <<extract_and_clean(html)>>]
    /\ UNCHANGED <<crawler, output>>

\* ContentEnricher.enrich(extracted_data, url, 200, 0), before crawl() is called
Enrich ==
    /\ call.op = "none" /\ dequeue_log = <<>>
    /\ \E data \in ExtractedData, url \in ClassifyUrls :
          call' = [NoCall EXCEPT !.op = "enrich", !.url = url, !.extracted = <<data>>,
                                 !.document = <<ContentEnricher_enrich(data, url, 200, 0)>>]
    /\ UNCHANGED <<crawler, output>>

\* the response of a page that was fetched
Ok == [kind |-> "response", status |-> 200]

\* the iteration of crawl() that finds the cleaned body of the page shorter
\* than the floor, the text of the page read
ThinText ==
    /\ call.op = "none"
    /\ pc = "loop" /\ LoopCondition
    /\ current_url \notin visited_urls
    /\ ~depth_exceeded(depth)
    /\ \E html \in HtmlPages :
          /\ is_thin(Len(extract_and_clean(html).body_text))
          /\ Pop("Thin", Ok, Len(extract_and_clean(html).body_text), 0)
    /\ Fetched
    /\ stats' = [stats EXCEPT !.pages_skipped = @ + 1]
    /\ url_queue' = Tail(url_queue)
    /\ UNCHANGED <<config, call, output, documents, pc, sleeps>>

\* the iteration of crawl() that makes the page html a Document, the text of
\* the page read; the page holds the links of the site
EmittedTextWith(html) ==
    /\ ~is_thin(Len(extract_and_clean(html).body_text))
    /\ follows_links(depth) => ~links_raise[site_hrefs[current_url]]
    /\ MarkAndGet
    /\ documents' = Append(documents, ContentEnricher_enrich(extract_and_clean(html),
                                                             current_url, 200, depth))
    /\ stats' = [stats EXCEPT !.pages_crawled = @ + 1]
    /\ url_queue' =
          IF follows_links(depth)
          THEN Tail(url_queue) \o
               NewEntries(site_hrefs[current_url], current_url,
                          visited_urls \cup {current_url}, depth)
          ELSE Tail(url_queue)
    /\ Pop("Emitted", Ok, Len(extract_and_clean(html).body_text),
           WouldEnqueue(site_hrefs[current_url]))
    /\ sleeps' = sleeps + 1
    /\ fetches_since_sleep' = 0
    /\ UNCHANGED <<config, call, output, pc>>

\* the page became a Document
EmittedText ==
    /\ call.op = "none"
    /\ pc = "loop" /\ LoopCondition
    /\ current_url \notin visited_urls
    /\ ~depth_exceeded(depth)
    /\ \E html \in HtmlPages : EmittedTextWith(html)

\* WebCrawler("http://x.io/", max_pages = 1, max_depth = 0)
ContentInit ==
    /\ start_url = U_root
    /\ max_pages = 1
    /\ max_depth = 0
    /\ allowed_domain = urlparse(start_url).netloc
    /\ visited_urls = {}
    /\ url_queue = << <<start_url, 0>> >>
    /\ documents = <<>>
    /\ stats = [pages_crawled |-> 0, pages_skipped |-> 0, errors |-> 0]
    /\ pc = "loop"
    /\ fetch_log = <<>>
    /\ dequeue_log = <<>>
    /\ sleeps = 0
    /\ fetches_since_sleep = 0
    /\ last = NoIteration
    /\ call = NoCall
    /\ output = NoFile

ContentNext ==
    \/ ExtractAndClean
    \/ Enrich
    \/ ThinText
    \/ EmittedText
    \/ LoopExit

ContentSpec == ContentInit /\ [][ContentNext]_vars

\* ------------------------------------------- save_to_jsonl, load_documents
Quote == "\""
Backslash == "\\"

\* the fields of AIDocument the model holds, in the order of the dataclass,
\* and their names as json.dumps writes them
FieldOrder ==
    << "url", "title", "body_text", "content_type", "word_count", "char_count",
       "has_code_blocks", "link_density", "paragraph_count", "http_status",
       "crawl_depth" >>

FieldName ==
    [f \in {FieldOrder[i] : i \in 1..Len(FieldOrder)} |->
        CASE f = "url" -> <<"u","r","l">>
          [] f = "title" -> <<"t","i","t","l","e">>
          [] f = "body_text" -> <<"b","o","d","y","_","t","e","x","t">>
          [] f = "content_type" -> <<"c","o","n","t","e","n","t","_","t","y","p","e">>
          [] f = "word_count" -> <<"w","o","r","d","_","c","o","u","n","t">>
          [] f = "char_count" -> <<"c","h","a","r","_","c","o","u","n","t">>
          [] f = "has_code_blocks" ->
                <<"h","a","s","_","c","o","d","e","_","b","l","o","c","k","s">>
          [] f = "link_density" -> <<"l","i","n","k","_","d","e","n","s","i","t","y">>
          [] f = "paragraph_count" ->
                <<"p","a","r","a","g","r","a","p","h","_","c","o","u","n","t">>
          [] f = "http_status" -> <<"h","t","t","p","_","s","t","a","t","u","s">>
          [] f = "crawl_depth" -> <<"c","r","a","w","l","_","d","e","p","t","h">>]

StringFields == {"url", "title", "body_text", "content_type"}
FloatFields == {"link_density"}
BoolFields == {"has_code_blocks"}

\* the characters json.dumps escapes in a string, and the letter after the
\* backslash
EscapeLetter ==
    [c \in {Quote, Backslash, "\n", "\t"} |->
        CASE c = Quote -> Quote [] c = Backslash -> Backslash [] c = "\n" -> "n"
          [] c = "\t" -> "t"]

EscapedAt(s) == {i \in 1..Len(s) : s[i] \in DOMAIN EscapeLetter}

\* json.encoder.py_encode_basestring, between the quotes
RECURSIVE encode_basestring(_)
encode_basestring(s) ==
    IF EscapedAt(s) = {} THEN s
    ELSE Before(s, FirstOf(EscapedAt(s)))
         \o <<Backslash, EscapeLetter[s[FirstOf(EscapedAt(s))]]>>
         \o encode_basestring(From(s, FirstOf(EscapedAt(s)) + 1))

DigitChars == <<"0","1","2","3","4","5","6","7","8","9">>

\* int.__repr__ of a number that is not negative
RECURSIVE int_repr(_)
int_repr(n) ==
    IF n < 10 THEN <<DigitChars[n + 1]>>
    ELSE int_repr(n \div 10) \o <<DigitChars[(n % 10) + 1]>>

\* float.__repr__ of a number of thousandths (a float round(x, 3) returned): the
\* integer part, the point, and the decimals up to the last that is not 0
float_repr(t) ==
    int_repr(t \div 1000) \o <<".">> \o
    (IF t % 1000 = 0 THEN <<"0">>
     ELSE IF t % 100 = 0 THEN <<DigitChars[((t % 1000) \div 100) + 1]>>
     ELSE IF t % 10 = 0
     THEN <<DigitChars[((t % 1000) \div 100) + 1], DigitChars[((t % 100) \div 10) + 1]>>
     ELSE <<DigitChars[((t % 1000) \div 100) + 1], DigitChars[((t % 100) \div 10) + 1],
            DigitChars[(t % 10) + 1]>>)

\* the text json.dumps writes for the value of a field
dumps_value(f, v) ==
    IF f \in StringFields THEN <<Quote>> \o encode_basestring(v) \o <<Quote>>
    ELSE IF f \in FloatFields THEN float_repr(v)
    ELSE IF f \in BoolFields
    THEN (IF v THEN <<"t","r","u","e">> ELSE <<"f","a","l","s","e">>)
    ELSE int_repr(v)

\* "name": value for the fields of the Document from the i-th on
RECURSIVE dumps_items(_, _)
dumps_items(doc, i) ==
    IF i > Len(FieldOrder) THEN <<>>
    ELSE (IF FieldOrder[i] \in DOMAIN doc
          THEN << <<Quote>> \o FieldName[FieldOrder[i]] \o <<Quote, ":", " ">>
                  \o dumps_value(FieldOrder[i], doc[FieldOrder[i]]) >>
          ELSE <<>>)
         \o dumps_items(doc, i + 1)

\* json.dumps(asdict(doc), ensure_ascii=False)
dumps(doc) == <<"{">> \o join(<<",", " ">>, dumps_items(doc, 1)) \o <<"}">>

\* jsonl that writes the newest document first
RECURSIVE jsonl_NewestFirst(_)
jsonl_NewestFirst(docs) ==
    IF docs = <<>> THEN <<>>
    ELSE dumps(docs[Len(docs)]) \o <<"\n">> \o jsonl_NewestFirst(Before(docs, Len(docs)))

\* save_to_jsonl: what f.write puts into the file, document after document
RECURSIVE jsonl(_)
jsonl(docs) ==
    IF docs = <<>> THEN <<>> ELSE dumps(Head(docs)) \o <<"\n">> \o jsonl(Tail(docs))

\* what a step of the JSON decoder gives: whether it succeeded, the value it
\* read and the text after it
Decoded(value, rest) == [ok |-> TRUE, value |-> value, rest |-> rest]
JSONDecodeError == [ok |-> FALSE, value |-> <<>>, rest |-> <<>>]

\* the character an escape letter stands for
Unescaped(c) == CHOOSE d \in DOMAIN EscapeLetter : EscapeLetter[d] = c

MarksAt(t) == {i \in 1..Len(t) : t[i] \in {Quote, Backslash}}

WithPrefix(prefix, decoded) ==
    IF decoded.ok THEN [decoded EXCEPT !.value = prefix \o @] ELSE JSONDecodeError

\* json.decoder.py_scanstring, from the character after the opening quote
RECURSIVE scanstring(_)
scanstring(t) ==
    IF MarksAt(t) = {} THEN JSONDecodeError
    ELSE IF t[FirstOf(MarksAt(t))] = Quote
    THEN Decoded(Before(t, FirstOf(MarksAt(t))), From(t, FirstOf(MarksAt(t)) + 1))
    ELSE IF FirstOf(MarksAt(t)) = Len(t)
            \/ ~ \E d \in DOMAIN EscapeLetter : EscapeLetter[d] = t[FirstOf(MarksAt(t)) + 1]
    THEN JSONDecodeError
    ELSE WithPrefix(Before(t, FirstOf(MarksAt(t)))
                       \o <<Unescaped(t[FirstOf(MarksAt(t)) + 1])>>,
                    scanstring(From(t, FirstOf(MarksAt(t)) + 2)))

DigitValue(c) == CHOOSE d \in 0..9 : DigitChars[d + 1] = c

\* int(digits)
RECURSIVE int_of(_)
int_of(digits) ==
    IF Len(digits) = 1 THEN DigitValue(digits[1])
    ELSE 10 * int_of(Before(digits, Len(digits))) + DigitValue(digits[Len(digits)])

\* how many characters of t, from its first on, belong to a number
NumberLen(t) ==
    FirstOf({i \in 1..(Len(t) + 1) : i = Len(t) + 1 \/ t[i] \notin Digits \cup {"."}}) - 1

\* float(text) in thousandths, for a text with one to three decimals
float_of(text) ==
    CASE Len(text) - Find(text, ".") = 1 ->
            1000 * int_of(Before(text, Find(text, "."))) +
            100 * int_of(From(text, Find(text, ".") + 1))
      [] Len(text) - Find(text, ".") = 2 ->
            1000 * int_of(Before(text, Find(text, "."))) +
            10 * int_of(From(text, Find(text, ".") + 1))
      [] Len(text) - Find(text, ".") = 3 ->
            1000 * int_of(Before(text, Find(text, "."))) +
            int_of(From(text, Find(text, ".") + 1))

\* json.scanner: the value that starts at the first character of t
parse_value(t) ==
    IF t = <<>> THEN JSONDecodeError
    ELSE IF t[1] = Quote THEN scanstring(From(t, 2))
    ELSE IF t[1] \in Digits
    THEN Decoded(IF Find(Before(t, NumberLen(t) + 1), ".") = 0
                 THEN int_of(Before(t, NumberLen(t) + 1))
                 ELSE float_of(Before(t, NumberLen(t) + 1)),
                 From(t, NumberLen(t) + 1))
    ELSE IF Len(t) >= 4 /\ Before(t, 5) = <<"t","r","u","e">> THEN Decoded(TRUE, From(t, 5))
    ELSE IF Len(t) >= 5 /\ Before(t, 6) = <<"f","a","l","s","e">> THEN Decoded(FALSE, From(t, 6))
    ELSE JSONDecodeError

\* the field a key names
FieldOf(key) == CHOOSE f \in DOMAIN FieldName : FieldName[f] = key

\* the value of a member, read from the text after its key
member_value(after_key) ==
    IF lstrip(after_key) = <<>> \/ lstrip(after_key)[1] # ":" THEN JSONDecodeError
    ELSE parse_value(lstrip(From(lstrip(after_key), 2)))

\* json.decoder.JSONObject, from a member on: pairs holds the members read so far
RECURSIVE parse_members(_, _)
parse_members(t, pairs) ==
    IF lstrip(t) = <<>> \/ lstrip(t)[1] # Quote THEN JSONDecodeError
    ELSE LET key == scanstring(From(lstrip(t), 2))
         IN  IF ~key.ok \/ ~ \E f \in DOMAIN FieldName : FieldName[f] = key.value
             THEN JSONDecodeError
             ELSE LET v == member_value(key.rest)
                  IN  IF ~v.ok \/ lstrip(v.rest) = <<>> THEN JSONDecodeError
                      ELSE IF lstrip(v.rest)[1] = ","
                      THEN parse_members(From(lstrip(v.rest), 2),
                                         pairs @@ (FieldOf(key.value) :> v.value))
                      ELSE IF lstrip(v.rest)[1] = "}"
                      THEN Decoded(pairs @@ (FieldOf(key.value) :> v.value),
                                   From(lstrip(v.rest), 2))
                      ELSE JSONDecodeError

\* json.loads(s) for the text of an object: anything after the object but
\* whitespace is an error, and so is a text with no object
loads(s) ==
    IF lstrip(s) = <<>> \/ lstrip(s)[1] # "{" THEN JSONDecodeError
    ELSE IF ~parse_members(From(lstrip(s), 2), <<>>).ok THEN JSONDecodeError
    ELSE IF lstrip(parse_members(From(lstrip(s), 2), <<>>).rest) # <<>> THEN JSONDecodeError
    ELSE Decoded(parse_members(From(lstrip(s), 2), <<>>).value, <<>>)

\* the lines a text file gives when it is iterated: up to and without each
\* newline, and what follows the last newline when that is not empty
lines_of(text) ==
    IF text = <<>> THEN <<>>
    ELSE IF text[Len(text)] = "\n" THEN split(Before(text, Len(text)), <<"\n">>)
    ELSE split(text, <<"\n">>)

\* f.readline(): the first line, "" at the end of the file
readline(text) == IF text = <<>> THEN <<>> ELSE lines_of(text)[1]

\* documents.append(json.loads(line)) for every line that is not blank; the
\* result is not ok when a line raises
RECURSIVE loads_lines(_)
loads_lines(lines) ==
    IF lines = <<>> THEN Decoded(<<>>, <<>>)
    ELSE IF strip(Head(lines)) = <<>> THEN loads_lines(Tail(lines))
    ELSE IF ~loads(strip(Head(lines))).ok THEN JSONDecodeError
    ELSE WithPrefix(<<loads(strip(Head(lines))).value>>, loads_lines(Tail(lines)))

\* analytics.load_documents on a file of that text: the lines of a JSONL file
\* when the first line and then every line is a JSON text, else json.load of
\* the whole file, which gives the one object the file holds or raises
load_documents(text) ==
    IF loads(readline(text)).ok /\ loads_lines(lines_of(text)).ok
    THEN loads_lines(lines_of(text))
    ELSE IF loads(text).ok THEN Decoded(<<loads(text).value>>, <<>>)
    ELSE JSONDecodeError

\* the pages of the crawl whose documents are saved: titles holding a quote, a
\* backslash, a newline and a tab, and the text of a JSON member; bodies with
\* and without code and anchors
Title(text) == <<Tag("title", <<>>, <<>>, <<NavigableString(text)>>)>>

SavePages ==
    { Soup(PlainTitle, <<>>, <<>>, PlainMain),
      Soup(Title(<<"a",Quote,"b">>), <<>>, <<>>, PlainMain),
      Soup(Title(<<"a",Backslash,"n",Backslash>>), <<>>, <<>>,
           Tag("main", <<>>, <<>>, <<P(Words100), P(<<"x">>)>>)),
      Soup(Title(<<"a","\n","b","\t","c">>), <<>>, <<>>,
           Tag("main", <<>>, <<>>, <<P(Words100), A(<<"k">>)>>)),
      Soup(Title(<<"x",Quote,","," ",Quote,"u","r","l",Quote,":"," ","1","}">>),
           <<>>, <<>>,
           Tag("main", <<>>, <<>>,
               <<P(Words100), Tag("pre", <<>>, <<>>, <<NavigableString(<<"q">>)>>)>>)),
      Soup(<<>>, <<>>, <<>>, Tag("main", <<>>, <<>>, <<A(<<" ">> \o Words100)>>)) }

\* at most this many documents are saved
MaxSaved == 2

\* WebCrawler("http://x.io/", max_pages, max_depth = 1)
SaveInit ==
    /\ start_url = U_root
    /\ max_pages \in 0..MaxSaved
    /\ max_depth = 1
    /\ allowed_domain = urlparse(start_url).netloc
    /\ visited_urls = {}
    /\ url_queue = << <<start_url, 0>> >>
    /\ documents = <<>>
    /\ stats = [pages_crawled |-> 0, pages_skipped |-> 0, errors |-> 0]
    /\ pc = "loop"
    /\ fetch_log = <<>>
    /\ dequeue_log = <<>>
    /\ sleeps = 0
    /\ fetches_since_sleep = 0
    /\ last = NoIteration
    /\ call = NoCall
    /\ output = NoFile

\* a page of the crawl became a Document
EmittedSaved ==
    /\ pc = "loop" /\ LoopCondition
    /\ current_url \notin visited_urls
    /\ ~depth_exceeded(depth)
    /\ \E html \in SavePages : EmittedTextWith(html)

\* crawler.save_to_jsonl(output_path), after crawl() returned
SaveToJsonl ==
    /\ pc = "done"
    /\ output = NoFile
    /\ output' = [path |-> "output", text |-> jsonl(documents)]
    /\ UNCHANGED <<crawler, call>>

\* load_documents(output_path), once the file is written
LoadDocuments ==
    /\ output # NoFile
    /\ call.op = "none"
    /\ call' = [NoCall EXCEPT !.op = "load_documents",
                              !.loaded = load_documents(output.text).value,
                              !.raised = ~load_documents(output.text).ok]
    /\ UNCHANGED <<crawler, output>>

SaveNext ==
    \/ EmittedSaved
    \/ LoopExit
    \/ SaveToJsonl
    \/ LoadDocuments

SaveSpec == SaveInit /\ [][SaveNext]_vars

\* ------------------------------------------------ the run, interrupted
\* main's handler of KeyboardInterrupt, raised while crawl() runs (--format is
\* jsonl, the default): the documents collected so far are written to the
\* partial output when there are any, then the process exits
Interrupt ==
    /\ pc = "loop"
    /\ pc' = "interrupted"
    /\ output' = IF documents # <<>>
                 THEN [path |-> "partial", text |-> jsonl(documents)]
                 ELSE output
    /\ UNCHANGED <<config, call, visited_urls, url_queue, documents, stats, fetch_log,
                   dequeue_log, sleeps, fetches_since_sleep, last>>

CliNext ==
    \/ AlreadyVisited
    \/ DepthExceeded
    \/ FetchFailed
    \/ ThinContent
    \/ ProcessingError
    \/ LinkDiscoveryError
    \/ Emitted
    \/ LoopExit
    \/ Interrupt

\* the crawler main constructs: the largest page budget, and --max-depth (any
\* int) either below the seed's depth or the largest
CliInit == Init /\ max_pages = MaxPagesBound /\ max_depth \in {-1, MaxDepthBound}

CliSpec == CliInit /\ [][CliNext]_vars

\* ------------------------------------------------------------- properties
NoDuplicates(s) == \A i, j \in 1..Len(s) : i # j => s[i] # s[j]

\* a step that is one iteration of the while loop
Iteration == Len(dequeue_log') = Len(dequeue_log) + 1

\* the response fetch_page got was a success / a failure
FetchedOk(it) == it.kind = "response" /\ it.status < 400
FetchFailure(it) ==
    it.kind \in {"Timeout", "RequestException"} \/ (it.kind = "response" /\ it.status >= 400)

\* C1: for max_pages >= 0 the collection never holds more than max_pages
\* Documents, however many fetches were attempted.
C1_PageBudget == max_pages >= 0 => Len(documents) <= max_pages

\* the budget is reached after more fetch attempts than Documents
C1_Witness ==
    /\ max_pages >= 2
    /\ Len(documents) = max_pages
    /\ Len(fetch_log) > max_pages

\* C2: every Document has 0 <= crawl_depth <= max_depth.
C2_DepthBudget ==
    \A i \in 1..Len(documents) :
        0 <= documents[i].crawl_depth /\ documents[i].crawl_depth <= max_depth

\* a Document at the deepest level allowed, below the seed
C2_Witness ==
    \E i \in 1..Len(documents) :
        documents[i].crawl_depth = max_depth /\ max_depth >= 1

\* C3: session.get() is never called twice with the same URL in one run.
C3_NoRefetch == NoDuplicates(fetch_log)

\* a URL whose fetch yielded no Document because it failed is dequeued again and
\* skipped as visited
C3_Witness ==
    /\ last.outcome = "AlreadyVisited"
    /\ \E i \in 1..Len(dequeue_log) :
          dequeue_log[i].url = last.url /\ dequeue_log[i].outcome = "Failed"

\* C4 as stated: no URL is dequeued from the frontier more than once.
C4_NoDoubleDequeue ==
    \A i, j \in 1..Len(dequeue_log) : i # j => dequeue_log[i].url # dequeue_log[j].url

\* C4 as amended: a URL may be dequeued again, and every dequeue of it after the
\* first finds it visited and is skipped.
C4_LaterDequeuesSkipped ==
    \A i, j \in 1..Len(dequeue_log) :
        (i < j /\ dequeue_log[i].url = dequeue_log[j].url)
            => dequeue_log[j].outcome = "AlreadyVisited"

\* a URL enqueued while two Documents were emitted is dequeued a second time
C4_Witness ==
    /\ Len(documents) >= 2
    /\ last.outcome = "AlreadyVisited"
    /\ \E i \in 1..(Len(dequeue_log) - 1) : dequeue_log[i].url = last.url

\* C5 as stated: no two Documents of a run have the same normalized URL.
C5_UniqueNormalizedUrl ==
    \A i, j \in 1..Len(documents) :
        i # j => normalize_url(documents[i].url) # normalize_url(documents[j].url)

\* C6: a fetched page whose cleaned body is shorter than 100 characters yields
\* no Document, enqueues nothing, and adds exactly 1 to pages_skipped and
\* nothing to pages_crawled and errors.
C6_ThinContentSkipped ==
    [][(Iteration /\ FetchedOk(last') /\ last'.body_len >= 0 /\ last'.body_len < 100)
        => /\ documents' = documents
           /\ url_queue' = Tail(url_queue)
           /\ stats' = [stats EXCEPT !.pages_skipped = @ + 1]]_vars

\* a page of 99 characters with links that would have been enqueued was skipped
C6_Witness ==
    /\ last.outcome = "Thin"
    /\ last.body_len = 99
    /\ last.links > 0
    /\ stats.pages_skipped = 1

\* C7: a failed fetch adds exactly 1 to errors, appends no Document, enqueues
\* nothing, leaves pages_crawled and pages_skipped alone, and the loop goes on.
C7_FetchFailureCounted ==
    [][(Iteration /\ FetchFailure(last'))
        => /\ stats' = [stats EXCEPT !.errors = @ + 1]
           /\ documents' = documents
           /\ url_queue' = Tail(url_queue)
           /\ pc' = "loop"]_vars

\* a status of exactly 400 was counted, with entries left in the frontier
C7_Witness ==
    /\ last.outcome = "Failed"
    /\ last.status = 400
    /\ stats.errors = 1
    /\ url_queue # <<>>
    /\ pc = "loop"

\* C8 as stated: an iteration that counts an error contributes no Document.
C8_ErrorMeansNoDocument ==
    [][stats'.errors > stats.errors => documents' = documents]_vars

\* C9: no failure of a page ends the run: crawl() is left only by its return,
\* with the frontier empty or the page budget reached.
C9_NoPageFailureAborts ==
    /\ pc \in {"loop", "done"}
    /\ pc = "done" => (url_queue = <<>> \/ Len(documents) >= max_pages)

\* a run that went on after a failed fetch, met a processing error on a later
\* entry, and returned because the frontier was empty
C9_Witness ==
    /\ pc = "done"
    /\ url_queue = <<>>
    /\ Len(documents) < max_pages
    /\ \E i, j \in 1..Len(dequeue_log) :
          /\ i < j
          /\ dequeue_log[i].outcome = "Failed"
          /\ dequeue_log[j].outcome = "ProcessingError"

\* C10 as stated: when the next entry is dequeued after a successfully fetched
\* page, time.sleep() has been called since that fetch.
C10_DelayAfterEveryFetchedPage ==
    [][(Iteration /\ FetchedOk(last)) => fetches_since_sleep = 0]_vars

\* C11 as stated: between any two successive calls of session.get() there is a
\* call of time.sleep(), also when the earlier of the two fetches failed.
C11_DelayBetweenFetches == fetches_since_sleep <= 1

\* what is left to do: the entries of the frontier, and MaxLinks entries for
\* every Document the budget still allows
Remaining == Len(url_queue) + MaxLinks * (max_pages - Len(documents))

\* C12: every iteration of the loop brings the run nearer to its end, whatever
\* URLs the pages link to, and the run ends: crawl() returns, with the frontier
\* empty or len(documents) at max_pages.
C12_Terminates ==
    /\ [][Iteration => Remaining' < Remaining]_vars
    /\ <>(pc = "done" /\ (url_queue = <<>> \/ Len(documents) >= max_pages))

\* a run that returned at the page budget with entries left in the frontier
C12_Witness ==
    /\ pc = "done"
    /\ max_pages >= 1
    /\ Len(documents) = max_pages
    /\ url_queue # <<>>

\* the places in url_queue' of the entries a loop iteration appended
Appended == Len(url_queue)..Len(url_queue')

\* C13: the frontier starts as the seed at depth 0; an iteration leaves the
\* entries behind the dequeued one as they are, hands the dequeued entry on at
\* the depth it was enqueued with, and appends entries only together with a
\* Document of the dequeued URL, each at that Document's crawl_depth plus one.
C13_EntryDepth ==
    /\ url_queue = << <<start_url, 0>> >>
    /\ [][/\ ~Iteration => url_queue' = url_queue
          /\ Iteration =>
                /\ Before(url_queue', Len(url_queue)) = Tail(url_queue)
                /\ last'.url = Head(url_queue)[1]
                /\ last'.depth = Head(url_queue)[2]
                /\ \A i \in Appended :
                      /\ Len(documents') = Len(documents) + 1
                      /\ documents'[Len(documents')].url = last'.url
                      /\ url_queue'[i][2] = documents'[Len(documents')].crawl_depth + 1]_vars

\* a Document of depth 1 enqueued a link, which waits in the frontier at depth 2
C13_Witness ==
    /\ last.outcome = "Emitted"
    /\ last.depth = 1
    /\ last.links >= 1
    /\ url_queue # <<>>
    /\ url_queue[Len(url_queue)][2] = 2
    /\ documents[Len(documents)].crawl_depth = 1

\* the eligible links of the site's page at url, in normalized absolute form
SiteLinks(url) == links_of[allowed_domain][url][site_hrefs[url]]

\* the URLs at most k links away from the seed, every link taken from a page
\* that was emitted as a Document
RECURSIVE Within(_)
Within(k) ==
    IF k = 0 THEN {start_url}
    ELSE LET near == Within(k - 1)
         IN  near \cup {l \in SiteUrls :
                          \E i \in 1..Len(documents) :
                              /\ documents[i].url \in near
                              /\ \E j \in 1..Len(SiteLinks(documents[i].url)) :
                                    SiteLinks(documents[i].url)[j] = l}

\* the length of the shortest such chain to url
Hops(url) == CHOOSE k \in 0..Cardinality(SiteUrls) :
                url \in Within(k) /\ \A n \in 0..(k - 1) : url \notin Within(n)

\* C14 as stated: the crawl_depth of every Document is the length of the
\* shortest chain of eligible links from the seed to its URL through pages
\* emitted as Documents.
C14_DepthIsShortestChain ==
    \A i \in 1..Len(documents) :
        /\ documents[i].url \in Within(Cardinality(SiteUrls))
        /\ documents[i].crawl_depth = Hops(documents[i].url)

\* url is the normalized absolute form of an href of a page of the site that
\* was emitted as a Document
HrefOfEmittedPage(url) ==
    \E i \in 1..Len(documents) :
        \E j \in 1..Len(site_hrefs[documents[i].url]) :
            url = normalize_url(urljoin(documents[i].url, site_hrefs[documents[i].url][j]))

\* C15: every frontier entry that link discovery enqueued (every entry but the
\* seed's, which alone has depth 0) holds the normalized absolute form of an
\* href of an emitted page and satisfies is_valid_url for the seed's domain;
\* every fetch after the seed's is of a URL of the seed's domain with no
\* blocked pattern in it.
C15_OnlyEligibleLinksFollowed ==
    /\ \A i \in 1..Len(url_queue) :
          url_queue[i][2] >= 1 =>
              /\ HrefOfEmittedPage(url_queue[i][1])
              /\ is_valid_url(url_queue[i][1], allowed_domain)
    /\ \A i \in 2..Len(fetch_log) :
          /\ urlparse(fetch_log[i]).netloc = urlparse(start_url).netloc
          /\ \A k \in 1..Len(skip_patterns) : ~Contains(lower(fetch_log[i]), skip_patterns[k])

\* the page /b, with an href to another host and one to /a/, was emitted and its
\* links were followed: the one entry it added is http://x.io/a
C15_Witness ==
    /\ last.outcome = "Emitted"
    /\ last.url = U_b
    /\ last.depth < max_depth
    /\ last.links = 1
    /\ url_queue # <<>>
    /\ url_queue[Len(url_queue)] = <<U_a, last.depth + 1>>
    /\ \E i \in 2..Len(fetch_log) : fetch_log[i] = U_c

\* C16 as stated: normalize_url called with what normalize_url returned returns
\* the same string again.
C16_NormalizeIdempotent ==
    [][(call.op = "normalize_url" /\ call'.op = "normalize_url" /\ call'.url = call.result)
        => call'.result = call.result]_vars

\* the place where the path of url ends: its first "?" or "#", or its end
PathEnd(url) ==
    IF \E i \in 1..Len(url) : url[i] \in {"?", "#"}
    THEN CHOOSE i \in 1..Len(url) :
            url[i] \in {"?", "#"} /\ \A j \in 1..(i - 1) : url[j] \notin {"?", "#"}
    ELSE Len(url) + 1

\* url without its fragment, and url with one more "/" at the end of its path
WithoutFragment(url) == IF Find(url, "#") = 0 THEN url ELSE Before(url, Find(url, "#"))
WithTrailingSlash(url) == Before(url, PathEnd(url)) \o <<"/">> \o From(url, PathEnd(url))

\* C17: the string normalize_url returns holds no "#", and the URL normalizes
\* to that same string with no fragment and with any other fragment.
C17_FragmentIgnored ==
    call.op = "normalize_url" =>
        /\ ~Contains(call.result, <<"#">>)
        /\ \A f \in UrlFragments :
              normalize_url(WithoutFragment(call.url) \o f) = call.result

\* a URL with a trailing slash, a query and a fragment that holds a "?"
C17_Witness ==
    /\ call.op = "normalize_url"
    /\ call.url = SCHEME \o HOST \o <<"/","p","/","?","k","=","v","#","f","?","x">>
    /\ call.result = SCHEME \o HOST \o <<"/","p","/","?","k","=","v">>

\* C18 as stated: a URL whose path is not the root and has no trailing slash
\* normalizes to the same string as the URL with one trailing slash added to
\* its path, with and without a query.
C18_TrailingSlashIgnored ==
    (/\ call.op = "normalize_url"
     /\ urlparse(call.url).path \notin {<<>>, <<"/">>}
     /\ ~EndsWith(urlparse(call.url).path, "/"))
        => normalize_url(WithTrailingSlash(call.url)) = call.result

\* C19 as stated: for a URL with a non-empty query q, the string normalize_url
\* returns ends with "?" and then q.
C19_QueryVerbatim ==
    (call.op = "normalize_url" /\ urlparse(call.url).query # <<>>)
        => /\ Len(call.result) > Len(urlparse(call.url).query)
           /\ From(call.result, Len(call.result) - Len(urlparse(call.url).query))
                = <<"?">> \o urlparse(call.url).query

\* the block-list as the specification gives it
BlockList ==
    {<<"/","l","o","g","i","n">>, <<"/","l","o","g","o","u","t">>,
     <<"/","s","i","g","n","i","n">>, <<"/","s","i","g","n","u","p">>,
     <<"/","r","e","g","i","s","t","e","r">>, <<"/","a","c","c","o","u","n","t">>,
     <<"/","c","a","r","t">>, <<"/","c","h","e","c","k","o","u","t">>,
     <<"/","s","e","a","r","c","h">>, <<"?","s","e","a","r","c","h","=">>,
     <<"?","q","=">>, <<".","p","d","f">>, <<".","j","p","g">>, <<".","p","n","g">>,
     <<".","g","i","f">>, <<".","z","i","p">>, <<".","e","x","e">>, <<"#">>}

TitleCandidates(soup) ==
    << IF soup.title = <<>> THEN <<>> ELSE strip(get_text(soup.title[1], <<>>, FALSE)),
       IF soup.h1 = <<>> THEN <<>> ELSE strip(get_text(soup.h1[1], <<>>, FALSE)),
       IF soup.og_title = <<>> THEN <<>> ELSE strip(soup.og_title[1]) >>

FirstNonEmpty(candidates) ==
    IF \E i \in 1..Len(candidates) : candidates[i] # <<>>
    THEN candidates[FirstOf({i \in 1..Len(candidates) : candidates[i] # <<>>})]
    ELSE Untitled

\* C21: extract_title returns the first candidate that is not empty, in the
\* order <title>, first <h1>, og:title, and "Untitled" when there is none; it
\* never returns the empty string
C21_FirstNonEmptyTitle ==
    call.op = "extract_and_clean" =>
        /\ call.extracted[1].title # <<>>
        /\ call.extracted[1].title = FirstNonEmpty(TitleCandidates(call.html[1]))

\* the content type the ordered rules give when the URL rules read the path
\* of the URL, in lower case
TypeByPath(url, title, body_text, link_density) ==
    IF ContainsAny(lower(urlparse(url).path), DocsPatterns) THEN doc_page
    ELSE IF ContainsAny(lower(urlparse(url).path), ArticlePatterns) THEN article
    ELSE IF ContainsAny(lower(urlparse(url).path), ProductPatterns) THEN product_page
    ELSE IF 10 * link_density.num > 3 * link_density.den THEN list_page
    ELSE IF Len(body_text) > TutorialFloor /\ ContainsAny(lower(title), TutorialWords)
    THEN tutorial
    ELSE article

\* C22: classify_content_type gives the type of the first rule that matches, in
\* the order docs, article, product, link density above 0.3, long body with a
\* tutorial title, article; the URL rules are triggered by the path of the URL
\* only, not by its host or its query
C22_RulesInOrderOnPath ==
    call.op = "enrich" =>
        call.document[1].content_type =
            TypeByPath(call.url, call.extracted[1].title, call.extracted[1].body_text,
                       call.extracted[1].link_density)

\* C23: the link density of every Document lies in [0, 1]: the summed length
\* of the anchor texts extract_and_clean computes never exceeds
\* max(length of the body text, 1), whatever whitespace the anchors hold and
\* however they are nested
C23_LinkDensityInUnitInterval ==
    /\ call.op = "extract_and_clean" =>
          /\ call.extracted[1].link_density.den =
                Max(Len(call.extracted[1].body_text), 1)
          /\ call.extracted[1].link_density.num >= 0
          /\ call.extracted[1].link_density.num <= call.extracted[1].link_density.den
    /\ \A i \in 1..Len(documents) :
          documents[i].link_density >= 0 /\ documents[i].link_density <= 1000

\* the number of whitespace-separated tokens of a text: the places a token ends at
TokenEnds(text) ==
    {j \in 1..Len(text) :
        text[j] \notin Whitespace /\ (j = Len(text) \/ text[j + 1] \in Whitespace)}

\* C24: every Document of the collection has char_count equal to the length of
\* its body text, which is at least 100, and word_count equal to the number of
\* whitespace-separated tokens of its body text
C24_CountsMatchBody ==
    \A i \in 1..Len(documents) :
        /\ documents[i].char_count = Len(documents[i].body_text)
        /\ documents[i].char_count >= MinBodyLen
        /\ documents[i].word_count = Cardinality(TokenEnds(documents[i].body_text))

\* a page whose body is exactly at the floor, of several words, became a Document
C24_Witness ==
    \E i \in 1..Len(documents) :
        documents[i].char_count = MinBodyLen /\ documents[i].word_count > 1

\* the text of the file holds one line for each of the documents, and the
\* i-th line is a JSON text of the i-th document
OneRecordEach ==
    /\ Len(lines_of(output.text)) = Len(documents)
    /\ \A i \in 1..Len(documents) :
          /\ loads(lines_of(output.text)[i]).ok
          /\ loads(lines_of(output.text)[i]).value = documents[i]

\* C25: save_to_jsonl writes one record for each of the n documents, in the
\* order they were emitted in, and load_documents reads n records back that
\* are equal to the documents field for field, in the same order
C25_JsonlRoundTrip ==
    /\ output # NoFile => OneRecordEach
    /\ call.op = "load_documents" => (~call.raised /\ call.loaded = documents)

\* C26: the collection is append-only during a run: a step leaves documents as
\* it is or appends one Document at its end; and what the interrupt handler
\* writes out is the collection as it is when the run is interrupted, every
\* Document emitted so far, in the order of emission
C26_AppendOnlyAndSaved ==
    /\ [][\/ documents' = documents
          \/ /\ Len(documents') = Len(documents) + 1
             /\ SubSeq(documents', 1, Len(documents)) = documents]_vars
    /\ [](pc = "interrupted" =>
            /\ output.path = "partial" <=> documents # <<>>
            /\ output.path = "partial" => OneRecordEach)

\* the run was interrupted after it emitted two Documents, and they were written
C26_Witness ==
    pc = "interrupted" /\ Len(documents) >= 2 /\ output.path = "partial"

\* by how much a step raises the counter c of stats
Raised(c) == stats'[c] - stats[c]

\* C27: every entry that is fetched ends in exactly one outcome: the iteration
\* raises exactly one of pages_crawled, pages_skipped and errors, by exactly
\* 1, whichever of fetch, extraction, enrichment and link discovery fails
C27_ExactlyOneCounter ==
    [][Len(fetch_log') = Len(fetch_log) + 1 =>
          /\ \A c \in {"pages_crawled", "pages_skipped", "errors"} : Raised(c) \in {0, 1}
          /\ Raised("pages_crawled") + Raised("pages_skipped") + Raised("errors") = 1]_vars

\* C28: dequeuing an entry whose URL is already visited only removes the entry
\* from the frontier: no fetch is issued, no delay is applied, and visited,
\* documents, pages_crawled, pages_skipped and errors stay as they are
C28_VisitedEntryOnlyRemoved ==
    [][(Iteration /\ Head(url_queue)[1] \in visited_urls) =>
          /\ url_queue' = Tail(url_queue)
          /\ fetch_log' = fetch_log
          /\ sleeps' = sleeps
          /\ visited_urls' = visited_urls
          /\ documents' = documents
          /\ stats' = stats]_vars

\* an entry whose URL was already visited was dequeued, after a page was fetched
C28_Witness ==
    /\ last.outcome = "AlreadyVisited"
    /\ fetch_log # <<>>
    /\ last.url \in visited_urls

Letters_of(strings) ==
    UNION {{strings[i][j] : j \in 1..Len(strings[i])} : i \in 1..Len(strings)} \ Whitespace

\* the elements among the nodes that is_boilerplate_element classifies as boilerplate
RECURSIVE BoilerplateAmong(_)
BoilerplateAmong(nodes) ==
    IF nodes = <<>> THEN <<>>
    ELSE (IF Head(nodes).name # "#text" /\ is_boilerplate_element(Head(nodes))
          THEN <<Head(nodes)>> ELSE <<>>)
         \o BoilerplateAmong(Tail(nodes))

\* the elements of the boilerplate tags below the nodes, at every depth
RECURSIVE TaggedBelow(_)
TaggedBelow(nodes) ==
    IF nodes = <<>> THEN <<>>
    ELSE (IF Head(nodes).name \in BOILERPLATE_TAGS THEN <<Head(nodes)>> ELSE <<>>)
         \o TaggedBelow(Head(nodes).contents)
         \o TaggedBelow(Tail(nodes))

\* the letters of the text of a main content's boilerplate: of the elements of
\* a boilerplate tag at every depth and of the direct children that
\* is_boilerplate_element classifies as boilerplate
BoilerplateLetters(main) ==
    Letters_of(all_strings(TaggedBelow(main.contents)))
      \cup Letters_of(all_strings(BoilerplateAmong(main.contents)))

\* C29: the body text extract_and_clean returns holds no text of a nav, footer,
\* aside, script or style element of the main content, nor of a direct child
\* of the main content that is_boilerplate_element classifies as boilerplate,
\* by its tag or by a pattern in its class or id (on the pages, whose
\* boilerplate is written in letters no other text uses)
C29_NoBoilerplateText ==
    call.op = "extract_and_clean" =>
        \A c \in BoilerplateLetters(call.html[1].main) :
            \A i \in 1..Len(call.extracted[1].body_text) :
                call.extracted[1].body_text[i] # c

\* how many characters of a URL its scheme, the "://" and its netloc take
AuthorityEnd(url) == Len(urlparse(url).scheme) + 3 + Len(urlparse(url).netloc)

\* the URL with the letters of its scheme and its host in lower case
LowerSchemeHost(url) ==
    lower(Before(url, AuthorityEnd(url) + 1)) \o From(url, AuthorityEnd(url) + 1)

\* C30: normalize_url lower-cases the scheme and the host: a URL and the URL
\* that differs from it only in the letter case of scheme and host normalize
\* to the same string
C30_SchemeHostCaseIgnored ==
    call.op = "normalize_url" =>
        /\ call.result = normalize_url(LowerSchemeHost(call.url))
        /\ LowerSchemeHost(call.result) = call.result

\* C31: at every loop boundary of a run (before each dequeue and when crawl()
\* has returned) pages_crawled equals the number of Documents in the collection.
C31_CrawledCountsDocuments ==
    pc \in {"loop", "done"} => stats.pages_crawled = Len(documents)

\* the run has returned with two Documents, one of them appended by an
\* iteration whose link discovery failed, and with a page skipped or failed
C31_Witness ==
    /\ pc = "done"
    /\ Len(documents) = 2
    /\ stats.pages_crawled = 2
    /\ \E i \in 1..Len(dequeue_log) : dequeue_log[i].outcome = "LinkDiscoveryError"
    /\ \E i \in 1..Len(dequeue_log) : dequeue_log[i].outcome \in {"Thin", "Failed"}

\* C32: the crawl is breadth-first: in every state the depths of the frontier
\* entries do not decrease from front to back and the last entry is at most
\* one level below the first, and the crawl_depth values of the Documents do
\* not decrease in the order of emission.
C32_BreadthFirst ==
    /\ \A i \in 1..(Len(url_queue) - 1) : url_queue[i][2] <= url_queue[i + 1][2]
    /\ url_queue # <<>> => url_queue[Len(url_queue)][2] <= url_queue[1][2] + 1
    /\ \A i \in 1..(Len(documents) - 1) :
          documents[i].crawl_depth <= documents[i + 1].crawl_depth

\* the frontier holds entries of depth 1 and of depth 2 while Documents of
\* depth 0 and of depth 1 are in the collection
C32_Witness ==
    /\ Len(url_queue) >= 2
    /\ url_queue[1][2] = 1
    /\ url_queue[Len(url_queue)][2] = 2
    /\ Len(documents) >= 2
    /\ documents[1].crawl_depth = 0
    /\ documents[Len(documents)].crawl_depth = 1

\* the dequeued entries that ended with the outcome o
Outcomes(o) == {i \in 1..Len(dequeue_log) : dequeue_log[i].outcome = o}

\* C33: when max_depth >= 0, no frontier entry is ever deeper than max_depth,
\* so no entry is ever skipped for its depth, and pages_skipped is the number
\* of pages skipped for thin content.
C33_NoEntryBeyondMaxDepth ==
    max_depth >= 0 =>
        /\ \A i \in 1..Len(url_queue) : url_queue[i][2] <= max_depth
        /\ Outcomes("DepthExceeded") = {}
        /\ stats.pages_skipped = Cardinality(Outcomes("Thin"))

\* a page at the deepest level allowed became a Document, after a page was
\* skipped for thin content
C33_Witness ==
    /\ max_depth >= 1
    /\ last.outcome = "Emitted"
    /\ last.depth = max_depth
    /\ last.body_len >= MinBodyLen
    /\ stats.pages_skipped >= 1

\* the dequeued entries that became Documents whose links were followed
Followed ==
    {i \in 1..Len(dequeue_log) :
        dequeue_log[i].outcome = "Emitted" /\ dequeue_log[i].depth < max_depth}

\* C34: when the run has ended with the frontier empty and fewer than
\* max_pages Documents, every eligible normalized link of every Document whose
\* links were followed (crawl_depth < max_depth, link discovery succeeded)
\* points to a URL that is in the visited set and was fetched.
C34_CompleteWhenFrontierEmpties ==
    (pc = "done" /\ url_queue = <<>> /\ Len(documents) < max_pages) =>
        \A i \in Followed :
            \A j \in 1..Len(SiteLinks(dequeue_log[i].url)) :
                /\ SiteLinks(dequeue_log[i].url)[j] \in visited_urls
                /\ \E k \in 1..Len(fetch_log) :
                      fetch_log[k] = SiteLinks(dequeue_log[i].url)[j]

\* the run ended with the frontier empty below the page budget, after two
\* pages with eligible links had their links followed and one linked page
\* yielded no Document
C34_Witness ==
    /\ pc = "done"
    /\ url_queue = <<>>
    /\ Len(documents) < max_pages
    /\ Cardinality(Followed) >= 2
    /\ \A i \in Followed : Len(SiteLinks(dequeue_log[i].url)) >= 1
    /\ Cardinality(visited_urls) > Len(documents)

\* C35: every Document has paragraph_count 1 and a body text that holds no
\* newline, whatever blocks and blank lines the text of its page holds.
C35_OneParagraphNoNewline ==
    \A i \in 1..Len(documents) :
        /\ documents[i].paragraph_count = 1
        /\ \A j \in 1..Len(documents[i].body_text) : documents[i].body_text[j] # "\n"

\* the Document of a page of two long paragraphs: the newline get_text put
\* between the two is a space in the body text, and the paragraph count is 1
C35_Witness ==
    \E i \in 1..Len(documents) :
        /\ Len(documents[i].body_text) = 2 * Len(Words100) + 1
        /\ documents[i].body_text[Len(Words100) + 1] = " "
        /\ documents[i].paragraph_count = 1

====
